---- MODULE Spec2Model ----
(***************************************************************************)
(* Model of coursebuilder/modules/courses/availability.py:                 *)
(* AvailabilityRESTHandler, the REST endpoint that reads (get) and writes  *)
(* (put) the availability settings of a course, its units and its lessons. *)
(*                                                                         *)
(* Python values are modelled as follows.  A dict is a function whose      *)
(* DOMAIN is the set of keys that are present, so "key in d" is            *)
(* key \in DOMAIN d.  A list is a sequence.  None is the string None       *)
(* below where a string is expected and 0 where a unit reference or a      *)
(* looked-up entity is expected (ids and list positions start at 1).       *)
(***************************************************************************)
EXTENDS Integers, Sequences, FiniteSets, TLC

VARIABLES
    persisted,   \* the stored course record: tree, settings, availability policy
    req,         \* per request: position in the handler, inputs, locals, response
    calls        \* the calls made on the course model so far, in order

vars == <<persisted, req, calls>>

(***************************************************************************)
(* Bounds of the model.                                                    *)
(***************************************************************************)
MaxUnits == 3
MaxLessons == 2
MaxItems == 2

(***************************************************************************)
(* Values.                                                                 *)
(***************************************************************************)
None == "None"

\* courses.AVAILABILITY_VALUES, offered by the schema for an element.
AVAILABILITY_VALUES == <<"public", "course", "private">>

\* The types a stored unit can have: plain unit, assessment, link.
UnitTypes == {"U", "A", "O"}

(***************************************************************************)
(* The course model (models/courses.py), as far as the handler uses it.    *)
(* A course is [units |-> Seq(unit), lessons |-> Seq(lesson)], both in     *)
(* stored (authoring) order.                                               *)
(***************************************************************************)
is_assessment(unit) == unit.type = "A"

is_unit(unit) == unit.type = "U"

get_units(course) == course.units

\* Position of the first unit with this id, 0 (None) when there is none.
find_unit_by_id(course, unit_id) ==
    LET hits == {i \in DOMAIN course.units : course.units[i].unit_id = unit_id}
    IN  IF hits = {} THEN 0 ELSE CHOOSE i \in hits : \A j \in hits : i <= j

\* Position of the first lesson with this id in any unit, 0 (None) when none.
find_lesson_by_id(course, lesson_id) ==
    LET hits == {i \in DOMAIN course.lessons :
                    course.lessons[i].lesson_id = lesson_id}
    IN  IF hits = {} THEN 0 ELSE CHOOSE i \in hits : \A j \in hits : i <= j

\* Position of the first unit naming unit_id as its pre- or post-assessment,
\* 0 (None) when no unit does.
get_parent_unit(course, unit_id) ==
    LET hits == {i \in DOMAIN course.units :
                    \/ course.units[i].pre_assessment = unit_id
                    \/ course.units[i].post_assessment = unit_id}
    IN  IF hits = {} THEN 0 ELSE CHOOSE i \in hits : \A j \in hits : i <= j

IsLessonOf(lesson, unit_id) == lesson.unit_id = unit_id

\* The lessons of one unit, in stored order.
get_lessons(course, unit_id) ==
    SelectSeq(course.lessons, LAMBDA lesson : IsLessonOf(lesson, unit_id))

(***************************************************************************)
(* Hierarchy flattener: add_unit, add_lesson, traverse_course.             *)
(***************************************************************************)
\* Variant of add_unit that reports the indent as shown_when_unavailable.
add_unit_wrong_field(unit, elements, indent) ==
    Append(elements,
           [type |-> "unit",
            id |-> unit.unit_id,
            indent |-> indent,
            name |-> unit.title,
            availability |-> unit.availability,
            shown_when_unavailable |-> indent])

add_unit(unit, elements, indent) ==
    Append(elements,
           [type |-> "unit",
            id |-> unit.unit_id,
            indent |-> indent,
            name |-> unit.title,
            availability |-> unit.availability,
            shown_when_unavailable |-> unit.shown_when_unavailable])

add_lesson(lesson, elements) ==
    Append(elements,
           [type |-> "lesson",
            id |-> lesson.lesson_id,
            indent |-> TRUE,
            name |-> lesson.title,
            availability |-> lesson.availability,
            shown_when_unavailable |-> lesson.shown_when_unavailable])

RECURSIVE add_lessons(_, _)
\* for lesson in course.get_lessons(unit.unit_id): cls.add_lesson(...)
add_lessons(lessons, elements) ==
    IF lessons = <<>> THEN elements
    ELSE add_lessons(Tail(lessons), add_lesson(Head(lessons), elements))

\* Variant of add_nested that lists the lessons before the pre-assessment.
add_nested_lessons_first(course, unit, elements) ==
    LET with_lessons == add_lessons(get_lessons(course, unit.unit_id), elements)
        with_pre ==
            IF unit.pre_assessment # 0
            THEN add_unit(course.units[find_unit_by_id(course, unit.pre_assessment)],
                          with_lessons, TRUE)
            ELSE with_lessons
    IN  IF unit.post_assessment # 0
        THEN add_unit(course.units[find_unit_by_id(course, unit.post_assessment)],
                      with_pre, TRUE)
        ELSE with_pre

\* The elements a plain unit nests under itself: pre-assessment, lessons,
\* post-assessment.
add_nested(course, unit, elements) ==
    LET with_pre ==
            IF unit.pre_assessment # 0
            THEN add_unit(course.units[find_unit_by_id(course, unit.pre_assessment)],
                          elements, TRUE)
            ELSE elements
        with_lessons == add_lessons(get_lessons(course, unit.unit_id), with_pre)
    IN  IF unit.post_assessment # 0
        THEN add_unit(course.units[find_unit_by_id(course, unit.post_assessment)],
                      with_lessons, TRUE)
        ELSE with_lessons

\* Variant of visit_unit that does not skip an assessment that has a parent.
visit_unit_no_skip(course, unit, elements) ==
    LET top == add_unit(unit, elements, FALSE)
    IN  IF is_unit(unit) THEN add_nested(course, unit, top) ELSE top

\* One iteration of the loop over course.get_units().
visit_unit(course, unit, elements) ==
    IF is_assessment(unit) /\ get_parent_unit(course, unit.unit_id) # 0
    THEN elements
    ELSE LET top == add_unit(unit, elements, FALSE)
         IN  IF is_unit(unit) THEN add_nested(course, unit, top) ELSE top

RECURSIVE traverse_from(_, _, _)
traverse_from(course, i, elements) ==
    IF i > Len(get_units(course)) THEN elements
    ELSE traverse_from(course, i + 1,
                       visit_unit(course, get_units(course)[i], elements))

traverse_course(course) == traverse_from(course, 1, <<>>)

(***************************************************************************)
(* The courses the model starts from.  A course has 1..MaxUnits units and  *)
(* 0..MaxLessons lessons.  Ids are unique and do not follow the stored     *)
(* order (the i-th of n units has id n + 1 - i; lesson ids continue after  *)
(* the unit ids, again in reverse).  Only plain units own lessons and name *)
(* pre-/post-assessments, and every such reference names an assessment of  *)
(* the course; two references may name the same assessment.                *)
(***************************************************************************)
UnitIdAt(n, i) == n + 1 - i

LessonIdAt(n, m, j) == n + (m + 1 - j)

\* Stored availability and shown_when_unavailable of the entity with id e
\* under value pattern k: neighbouring ids get different values.
AvailabilityOf(e, k) == AVAILABILITY_VALUES[((e + k) % Len(AVAILABILITY_VALUES)) + 1]

ShownOf(e, k) == (e + k) % 2 = 0

ValuePatterns == 0 .. (Len(AVAILABILITY_VALUES) - 1)

TitleOf(type) ==
    CASE type = "U" -> "Unit" [] type = "A" -> "Assessment" [] OTHER -> "Link"

IdsOfType(types, type) ==
    {UnitIdAt(Len(types), i) : i \in {j \in DOMAIN types : types[j] = type}}

\* pre_assessment / post_assessment of every unit: 0 for a unit that is not
\* plain, 0 or the id of an assessment for a plain unit.
RefChoices(types) ==
    {refs \in [DOMAIN types -> {0} \cup IdsOfType(types, "A")] :
        \A i \in DOMAIN types : types[i] # "U" => refs[i] = 0}

\* The owning unit of every lesson, in stored lesson order.
OwnerChoices(types) ==
    UNION {[1 .. m -> IdsOfType(types, "U")] : m \in 0 .. MaxLessons}

MakeCourse(types, pre, post, owners, k) ==
    [units |->
        [i \in DOMAIN types |->
            [unit_id |-> UnitIdAt(Len(types), i),
             type |-> types[i],
             title |-> TitleOf(types[i]),
             availability |-> AvailabilityOf(UnitIdAt(Len(types), i), k),
             shown_when_unavailable |-> ShownOf(UnitIdAt(Len(types), i), k),
             pre_assessment |-> pre[i],
             post_assessment |-> post[i]]],
     lessons |->
        [j \in DOMAIN owners |->
            [lesson_id |-> LessonIdAt(Len(types), Len(owners), j),
             unit_id |-> owners[j],
             title |-> "Lesson",
             availability |->
                 AvailabilityOf(LessonIdAt(Len(types), Len(owners), j), k),
             shown_when_unavailable |->
                 ShownOf(LessonIdAt(Len(types), Len(owners), j), k)]]]

TypeChoices == UNION {[1 .. n -> UnitTypes] : n \in 1 .. MaxUnits}

(***************************************************************************)
(* Python helpers: dict.get with a default, and truthiness.  A value that  *)
(* is not a string in this model (a boolean flag of the JSON payload) is   *)
(* written as the text of its Python literal.                              *)
(***************************************************************************)
dict_get(d, key, default) == IF key \in DOMAIN d THEN d[key] ELSE default

dict_set(d, key, value) ==
    [k \in DOMAIN d \cup {key} |-> IF k = key THEN value ELSE d[k]]

Falsy == {None, "False", "0", ""}

bool(value) == value \notin Falsy

(***************************************************************************)
(* Settings merger, course-level part (put, lines 182-191): the settings   *)
(* dict after the whitelist and show_lessons_in_syllabus of the payload    *)
(* have been written into it.                                              *)
(***************************************************************************)
\* Variant of merge_whitelist that tests the value's truth, not "is not None".
merge_whitelist_if_truthy(settings, payload) ==
    LET whitelist == dict_get(payload, "whitelist", None)
    IN  IF bool(whitelist)
        THEN [settings EXCEPT !.reg_form = dict_set(@, "whitelist", whitelist)]
        ELSE settings

merge_whitelist(settings, payload) ==
    LET whitelist == dict_get(payload, "whitelist", None)
    IN  IF whitelist # None
        THEN [settings EXCEPT !.reg_form = dict_set(@, "whitelist", whitelist)]
        ELSE settings

merge_show_lessons(settings, payload) ==
    LET show_lessons_in_syllabus ==
            dict_get(payload, "show_lessons_in_syllabus", None)
    IN  IF show_lessons_in_syllabus # None
        THEN [settings EXCEPT !.course =
                 dict_set(@, "show_lessons_in_syllabus",
                          bool(show_lessons_in_syllabus))]
        ELSE settings

merge_settings(settings, payload) ==
    merge_show_lessons(merge_whitelist(settings, payload), payload)

(***************************************************************************)
(* Settings merger, element part (put, lines 199-211).  The result of the  *)
(* loop is the request's course object and whether ValueError was raised.  *)
(***************************************************************************)
\* element.availability = ...; element.shown_when_unavailable = ...
set_fields(element, item) ==
    LET e1 == IF "availability" \in DOMAIN item
              THEN [element EXCEPT !.availability = item.availability]
              ELSE element
    IN  IF "shown_when_unavailable" \in DOMAIN item
        THEN [e1 EXCEPT !.shown_when_unavailable = item.shown_when_unavailable]
        ELSE e1

\* Variant of apply_item that skips an entry of unknown type.
apply_item_skip_unknown(course, item) ==
    IF item.type = "unit"
    THEN LET element == find_unit_by_id(course, item.id)
         IN  [course |-> IF element # 0
                         THEN [course EXCEPT !.units[element] = set_fields(@, item)]
                         ELSE course,
              raised |-> FALSE]
    ELSE IF item.type = "lesson"
    THEN LET element == find_lesson_by_id(course, item.id)
         IN  [course |-> IF element # 0
                         THEN [course EXCEPT !.lessons[element] = set_fields(@, item)]
                         ELSE course,
              raised |-> FALSE]
    ELSE [course |-> course, raised |-> FALSE]

\* Variant of apply_item that raises when the entry's id is not found.
apply_item_raise_missing(course, item) ==
    IF item.type = "unit"
    THEN LET element == find_unit_by_id(course, item.id)
         IN  [course |-> IF element # 0
                         THEN [course EXCEPT !.units[element] = set_fields(@, item)]
                         ELSE course,
              raised |-> element = 0]
    ELSE IF item.type = "lesson"
    THEN LET element == find_lesson_by_id(course, item.id)
         IN  [course |-> IF element # 0
                         THEN [course EXCEPT !.lessons[element] = set_fields(@, item)]
                         ELSE course,
              raised |-> element = 0]
    ELSE [course |-> course, raised |-> TRUE]

\* One iteration of the loop over payload.get('element_settings', []).
apply_item(course, item) ==
    IF item.type = "unit"
    THEN LET element == find_unit_by_id(course, item.id)
         IN  [course |-> IF element # 0
                         THEN [course EXCEPT !.units[element] = set_fields(@, item)]
                         ELSE course,
              raised |-> FALSE]
    ELSE IF item.type = "lesson"
    THEN LET element == find_lesson_by_id(course, item.id)
         IN  [course |-> IF element # 0
                         THEN [course EXCEPT !.lessons[element] = set_fields(@, item)]
                         ELSE course,
              raised |-> FALSE]
    ELSE [course |-> course, raised |-> TRUE]

RECURSIVE apply_element_settings_break(_, _)
\* Variant of apply_element_settings that leaves the loop at the first entry
\* whose id is not found.
apply_element_settings_break(course, items) ==
    IF items = <<>> THEN [course |-> course, raised |-> FALSE]
    ELSE LET step == apply_item(course, Head(items))
             found ==
                 \/ Head(items).type = "unit"
                    /\ find_unit_by_id(course, Head(items).id) # 0
                 \/ Head(items).type = "lesson"
                    /\ find_lesson_by_id(course, Head(items).id) # 0
         IN  IF step.raised THEN step
             ELSE IF ~found THEN [course |-> course, raised |-> FALSE]
             ELSE apply_element_settings_break(step.course, Tail(items))

RECURSIVE apply_element_settings(_, _)
apply_element_settings(course, items) ==
    IF items = <<>> THEN [course |-> course, raised |-> FALSE]
    ELSE LET step == apply_item(course, Head(items))
         IN  IF step.raised THEN step
             ELSE apply_element_settings(step.course, Tail(items))

(***************************************************************************)
(* Requests.                                                               *)
(***************************************************************************)
Logged(r, names) == calls \o [i \in DOMAIN names |-> [r |-> r, call |-> names[i]]]

NoCourse == [units |-> <<>>, lessons |-> <<>>]

NoSettings == [reg_form |-> <<>>, course |-> <<>>]

NoPayload == [k \in {} |-> None]

Idle ==
    [pc |-> "idle", method |-> "none", xsrf_ok |-> TRUE, allowed |-> TRUE,
     payload |-> NoPayload,
     loaded_course |-> NoCourse, loaded_settings |-> NoSettings,
     course |-> NoCourse, settings |-> NoSettings,
     status |-> 0, message |-> "", entity |-> NoPayload]

\* Status sent by assert_xsrf_token_or_fail when the token is bad.
XsrfFailureStatus == 401

\* Variant of put_access_status without the permission check.
put_access_status_token_only(xsrf_ok, allowed) ==
    IF ~xsrf_ok THEN XsrfFailureStatus ELSE 0

\* What the access checks of put answer: 0 to go on, else the status sent.
put_access_status(xsrf_ok, allowed) ==
    IF ~xsrf_ok THEN XsrfFailureStatus
    ELSE IF ~allowed THEN 401
    ELSE 0

\* What the access check of get answers: 0 to go on, else the status sent.
get_access_status(allowed) == IF ~allowed THEN 401 ELSE 0

(***************************************************************************)
(* get (lines 142-162), one atomic read.                                   *)
(***************************************************************************)
Get(r) ==
    /\ req[r].pc = "idle"
    /\ \E allowed \in BOOLEAN :
         IF get_access_status(allowed) # 0
         THEN /\ req' = [req EXCEPT ![r] =
                    [@ EXCEPT !.pc = "done", !.method = "get",
                              !.allowed = allowed,
                              !.status = get_access_status(allowed),
                              !.message = "Access denied."]]
              /\ calls' = Logged(r, <<"send_json_response">>)
         ELSE /\ req' = [req EXCEPT ![r] =
                    [@ EXCEPT !.pc = "done", !.method = "get",
                              !.loaded_course = persisted.course,
                              !.loaded_settings = persisted.settings,
                              !.status = 200, !.message = "OK.",
                              !.entity =
                                  [course_availability |->
                                       persisted.course_availability,
                                   show_lessons_in_syllabus |->
                                       dict_get(persisted.settings.course,
                                                "show_lessons_in_syllabus", FALSE),
                                   whitelist |->
                                       persisted.settings.reg_form.whitelist,
                                   element_settings |->
                                       traverse_course(persisted.course)]]]
              /\ calls' = Logged(r, <<"get_course", "get_course_availability",
                                      "get_environ", "get_course",
                                      "send_json_response">>)
    /\ UNCHANGED persisted

(***************************************************************************)
(* put (lines 164-213), in the steps between which another request can    *)
(* read or write the stored record.                                        *)
(***************************************************************************)
\* Lines 165-180: parse the request, check access, load course and settings.
PutBegin(r, payloads) ==
    /\ req[r].pc = "idle"
    /\ \E xsrf_ok \in BOOLEAN, allowed \in BOOLEAN, payload \in payloads :
         IF put_access_status(xsrf_ok, allowed) # 0
         THEN /\ req' = [req EXCEPT ![r] =
                    [@ EXCEPT !.pc = "done", !.method = "put",
                              !.xsrf_ok = xsrf_ok, !.allowed = allowed,
                              !.payload = payload,
                              !.status = put_access_status(xsrf_ok, allowed),
                              !.message = IF xsrf_ok THEN "Access denied."
                                          ELSE "Bad XSRF token."]]
              /\ calls' = Logged(r, <<"send_json_response">>)
         ELSE /\ req' = [req EXCEPT ![r] =
                    [@ EXCEPT !.pc = "loaded", !.method = "put",
                              !.xsrf_ok = xsrf_ok, !.allowed = allowed,
                              !.payload = payload,
                              !.loaded_course = persisted.course,
                              !.loaded_settings = persisted.settings,
                              !.course = persisted.course,
                              !.settings = persisted.settings]]
              /\ calls' = Logged(r, <<"get_course", "get_environ">>)
    /\ UNCHANGED persisted

\* Variant of PutSaveSettings that saves only settings the payload changed.
PutSaveSettingsIfChanged(r) ==
    /\ req[r].pc = "loaded"
    /\ LET settings == merge_settings(req[r].settings, req[r].payload)
       IN  /\ req' = [req EXCEPT ![r] =
                        [@ EXCEPT !.pc = "settings_saved", !.settings = settings]]
           /\ persisted' = [persisted EXCEPT !.settings = settings]
           /\ calls' = IF settings = req[r].settings THEN calls
                       ELSE Logged(r, <<"save_settings">>)

\* Lines 182-192: course-level settings, then course.save_settings(settings).
PutSaveSettings(r) ==
    /\ req[r].pc = "loaded"
    /\ LET settings == merge_settings(req[r].settings, req[r].payload)
       IN  /\ req' = [req EXCEPT ![r] =
                        [@ EXCEPT !.pc = "settings_saved", !.settings = settings]]
           /\ persisted' = [persisted EXCEPT !.settings = settings]
    /\ calls' = Logged(r, <<"save_settings">>)

\* Lines 194-196: course.set_course_availability, when the payload names one.
PutSetCourseAvailability(r) ==
    /\ req[r].pc = "settings_saved"
    /\ LET course_availability ==
               dict_get(req[r].payload, "course_availability", None)
       IN  IF bool(course_availability)
           THEN /\ persisted' = [persisted EXCEPT
                                    !.course_availability = course_availability]
                /\ calls' = Logged(r, <<"set_course_availability">>)
           ELSE UNCHANGED <<persisted, calls>>
    /\ req' = [req EXCEPT ![r] = [@ EXCEPT !.pc = "availability_set"]]

\* Variant of PutElementsAndSave that applies the entries to the course as it
\* is stored at that moment, not to the course object the request loaded.
PutElementsAndSaveRebased(r) ==
    /\ req[r].pc = "availability_set"
    /\ LET result == apply_element_settings(
                         persisted.course,
                         dict_get(req[r].payload, "element_settings", <<>>))
       IN  IF result.raised
           THEN /\ req' = [req EXCEPT ![r] =
                      [@ EXCEPT !.pc = "raised", !.course = result.course]]
                /\ UNCHANGED <<persisted, calls>>
           ELSE /\ req' = [req EXCEPT ![r] =
                      [@ EXCEPT !.pc = "done", !.course = result.course,
                                !.status = 200, !.message = "Saved."]]
                /\ persisted' = [persisted EXCEPT !.course = result.course]
                /\ calls' = Logged(r, <<"save", "send_json_response">>)

\* Lines 198-213: the loop over element_settings, then course.save() and the
\* response; or ValueError out of the loop, which ends the request.
PutElementsAndSave(r) ==
    /\ req[r].pc = "availability_set"
    /\ LET result == apply_element_settings(
                         req[r].course,
                         dict_get(req[r].payload, "element_settings", <<>>))
       IN  IF result.raised
           THEN /\ req' = [req EXCEPT ![r] =
                      [@ EXCEPT !.pc = "raised", !.course = result.course]]
                /\ UNCHANGED <<persisted, calls>>
           ELSE /\ req' = [req EXCEPT ![r] =
                      [@ EXCEPT !.pc = "done", !.course = result.course,
                                !.status = 200, !.message = "Saved."]]
                /\ persisted' = [persisted EXCEPT !.course = result.course]
                /\ calls' = Logged(r, <<"save", "send_json_response">>)

(***************************************************************************)
(* The payloads a client submits.                                          *)
(***************************************************************************)
Absent == "<absent>"

\* A dict with the one key, or the empty dict when the key is left out.
Optional(key, value) == IF value = Absent THEN NoPayload ELSE key :> value

MissingId == MaxUnits + MaxLessons + 1

\* (type, id) of an entry: a unit and a lesson that exist in every course of
\* full size, a unit and a lesson that do not exist, and an unknown type.
ItemTargets ==
    {[type |-> "unit", id |-> 1],
     [type |-> "unit", id |-> MissingId],
     [type |-> "lesson", id |-> MaxUnits + 1],
     [type |-> "lesson", id |-> MissingId],
     [type |-> "section", id |-> 1]}

ItemValues ==
    {[availability |-> "public"],
     [availability |-> "private", shown_when_unavailable |-> TRUE],
     [shown_when_unavailable |-> FALSE]}

Items == {target @@ values : target \in ItemTargets, values \in ItemValues}

ElementLists == UNION {[1 .. m -> Items] : m \in 0 .. MaxItems}

WhitelistValues == {Absent, None, "", "new@example.com"}

ShowLessonsValues == {Absent, None, "False", "True", "0", "1"}

CourseAvailabilityValues == {Absent, "", "public"}

\* Every combination of the course-level fields, without element_settings.
ScalarPayloads ==
    {Optional("whitelist", w) @@ Optional("show_lessons_in_syllabus", s)
        @@ Optional("course_availability", a) :
     w \in WhitelistValues, s \in ShowLessonsValues,
     a \in CourseAvailabilityValues}

\* Every element_settings list, alone and with all course-level fields.
ElementPayloads ==
    {scalars @@ [element_settings |-> items] :
     scalars \in {NoPayload,
                  [whitelist |-> "new@example.com",
                   show_lessons_in_syllabus |-> "False",
                   course_availability |-> "public"]},
     items \in ElementLists}

\* What a client sends back after a read, unedited.
RoundTripPayload(course) == [element_settings |-> traverse_course(course)]

Payloads == ScalarPayloads \cup ElementPayloads

(***************************************************************************)
(* Initial states and specifications.                                      *)
(***************************************************************************)
StoredSettings(course_dict) ==
    [reg_form |-> [whitelist |-> "old@example.com"], course |-> course_dict]

ShowLessonsSet == [show_lessons_in_syllabus |-> TRUE]

ShowLessonsUnset == [k \in {} |-> TRUE]

\* Courses of full size made of one plain unit, which comes first, owns every
\* lesson and has both a pre- and a post-assessment, followed by assessments.
FullTypes == [i \in 1 .. MaxUnits |-> IF i = 1 THEN "U" ELSE "A"]

FullCourse(pre, post, k) ==
    MakeCourse(FullTypes, pre, post,
               [j \in 1 .. MaxLessons |-> UnitIdAt(MaxUnits, 1)], k)

Stored(course, course_dict) ==
    [course |-> course,
     settings |-> StoredSettings(course_dict),
     course_availability |-> "registration_required"]

\* Reads of any course.
InitTraverse ==
    /\ \E types \in TypeChoices :
         \E pre \in RefChoices(types), post \in RefChoices(types),
            owners \in OwnerChoices(types), k \in ValuePatterns,
            course_dict \in {ShowLessonsSet, ShowLessonsUnset} :
             persisted = Stored(MakeCourse(types, pre, post, owners, k),
                                course_dict)
    /\ req = [r \in {1} |-> Idle]
    /\ calls = <<>>

NextTraverse == \E r \in DOMAIN req : Get(r)

SpecTraverse == InitTraverse /\ [][NextTraverse]_vars

\* One request, a read or a write with any payload, on a course of full size.
Init ==
    /\ \E pre \in RefChoices(FullTypes), post \in RefChoices(FullTypes),
          k \in ValuePatterns :
         /\ pre[1] # 0
         /\ post[1] # 0
         /\ persisted = Stored(FullCourse(pre, post, k), ShowLessonsSet)
    /\ req = [r \in {1} |-> Idle]
    /\ calls = <<>>

Next ==
    \/ \E r \in DOMAIN req : Get(r)
    \/ \E r \in DOMAIN req : PutBegin(r, Payloads)
    \/ \E r \in DOMAIN req : PutSaveSettings(r)
    \/ \E r \in DOMAIN req : PutSetCourseAvailability(r)
    \/ \E r \in DOMAIN req : PutElementsAndSave(r)

Spec == Init /\ [][Next]_vars

\* One write that sends back, unedited, what a read of the course returns.
NextRoundTrip ==
    \/ \E r \in DOMAIN req : PutBegin(r, {RoundTripPayload(persisted.course)})
    \/ \E r \in DOMAIN req : PutSaveSettings(r)
    \/ \E r \in DOMAIN req : PutSetCourseAvailability(r)
    \/ \E r \in DOMAIN req : PutElementsAndSave(r)

SpecRoundTrip == InitTraverse /\ [][NextRoundTrip]_vars

\* Two writes on one course, their steps interleaved in any order.
Writers == {1, 2}

ConcurrentPayloads ==
    {[whitelist |-> "new@example.com",
      element_settings |->
          <<[type |-> "unit", id |-> 1, availability |-> "public"]>>],
     [whitelist |-> "",
      show_lessons_in_syllabus |-> "False",
      course_availability |-> "public",
      element_settings |->
          <<[type |-> "lesson", id |-> MaxUnits + 1, availability |-> "private",
             shown_when_unavailable |-> TRUE]>>],
     [show_lessons_in_syllabus |-> "0",
      element_settings |->
          <<[type |-> "unit", id |-> 1, shown_when_unavailable |-> FALSE],
            [type |-> "section", id |-> 1, availability |-> "public"]>>],
     NoPayload}

InitConcurrent ==
    /\ \E pre \in RefChoices(FullTypes), post \in RefChoices(FullTypes) :
         /\ pre[1] # 0
         /\ post[1] # 0
         /\ pre[1] # post[1]
         /\ persisted = Stored(FullCourse(pre, post, 0), ShowLessonsSet)
    /\ req = [r \in Writers |-> Idle]
    /\ calls = <<>>

NextConcurrent ==
    \/ \E r \in DOMAIN req : PutBegin(r, ConcurrentPayloads)
    \/ \E r \in DOMAIN req : PutSaveSettings(r)
    \/ \E r \in DOMAIN req : PutSetCourseAvailability(r)
    \/ \E r \in DOMAIN req : PutElementsAndSave(r)

SpecConcurrent == InitConcurrent /\ [][NextConcurrent]_vars

(***************************************************************************)
(* Vocabulary of the properties below.                                     *)
(***************************************************************************)
\* The successful reads, and the course each one traversed.
Reads == {r \in DOMAIN req : req[r].method = "get" /\ req[r].status = 200}

ElementsOf(r) == req[r].entity.element_settings

UnitElement(unit, indent) ==
    [type |-> "unit", id |-> unit.unit_id, indent |-> indent,
     name |-> unit.title, availability |-> unit.availability,
     shown_when_unavailable |-> unit.shown_when_unavailable]

LessonElement(lesson) ==
    [type |-> "lesson", id |-> lesson.lesson_id, indent |-> TRUE,
     name |-> lesson.title, availability |-> lesson.availability,
     shown_when_unavailable |-> lesson.shown_when_unavailable]

UnitWithId(course, unit_id) ==
    course.units[CHOOSE i \in DOMAIN course.units :
                     course.units[i].unit_id = unit_id]

PositionOfUnit(course, unit_id) ==
    CHOOSE i \in DOMAIN course.units : course.units[i].unit_id = unit_id

LessonsIn(course, unit_id) ==
    SelectSeq(course.lessons, LAMBDA lesson : lesson.unit_id = unit_id)

\* What the outline shows for a plain unit: the unit, its pre-assessment,
\* its lessons in stored order, its post-assessment.
BlockOf(course, unit) ==
    <<UnitElement(unit, FALSE)>>
    \o (IF unit.pre_assessment # 0
        THEN <<UnitElement(UnitWithId(course, unit.pre_assessment), TRUE)>>
        ELSE <<>>)
    \o [j \in DOMAIN LessonsIn(course, unit.unit_id) |->
           LessonElement(LessonsIn(course, unit.unit_id)[j])]
    \o (IF unit.post_assessment # 0
        THEN <<UnitElement(UnitWithId(course, unit.post_assessment), TRUE)>>
        ELSE <<>>)

OccursAt(elements, block, k) ==
    /\ k + Len(block) - 1 <= Len(elements)
    /\ \A j \in DOMAIN block : elements[k + j - 1] = block[j]

\* The unit is named as pre- or post-assessment by some unit of the course.
IsReferenced(course, unit_id) ==
    \E i \in DOMAIN course.units :
        \/ course.units[i].pre_assessment = unit_id
        \/ course.units[i].post_assessment = unit_id

TopLevel(elements) == {k \in DOMAIN elements : ~elements[k].indent}

\* C1: in what a read returns, every plain unit that has a pre- and/or a
\* post-assessment is followed at once by its pre-assessment, its lessons in
\* stored order and its post-assessment, all indented; the elements that are
\* not indented are units in stored unit order; and an assessment that some
\* unit names as pre- or post-assessment is never among them.
C1_Outline ==
    \A r \in Reads :
        LET course == req[r].loaded_course
            elements == ElementsOf(r)
        IN  /\ \A i \in DOMAIN course.units :
                   ( /\ course.units[i].type = "U"
                     /\ \/ course.units[i].pre_assessment # 0
                        \/ course.units[i].post_assessment # 0 )
                   => \E k \in DOMAIN elements :
                          OccursAt(elements, BlockOf(course, course.units[i]), k)
            /\ \A k \in TopLevel(elements) : elements[k].type = "unit"
            /\ \A k1, k2 \in TopLevel(elements) :
                   k1 < k2 => PositionOfUnit(course, elements[k1].id)
                              < PositionOfUnit(course, elements[k2].id)
            /\ \A k \in TopLevel(elements) :
                   ~( /\ UnitWithId(course, elements[k].id).type = "A"
                      /\ IsReferenced(course, elements[k].id) )

\* A read of a course whose first unit is plain and has a pre-assessment and
\* two lessons, and is followed by another top-level unit.
C1_Witness ==
    \E r \in Reads :
        LET course == req[r].loaded_course
        IN  /\ Len(course.units) = MaxUnits
            /\ course.units[1].type = "U"
            /\ course.units[1].pre_assessment # 0
            /\ Len(LessonsIn(course, course.units[1].unit_id)) >= 2
            /\ Cardinality(TopLevel(ElementsOf(r))) >= 2
            /\ Len(ElementsOf(r)) >= 5

\* Every pre-/post-assessment reference names an assessment of the course.
ReferencesResolve(course) ==
    \A i \in DOMAIN course.units :
        \A ref \in {course.units[i].pre_assessment,
                    course.units[i].post_assessment} \ {0} :
            \E j \in DOMAIN course.units :
                course.units[j].unit_id = ref /\ course.units[j].type = "A"

\* The places where a unit names unit_id as its pre- or its post-assessment.
ReferencesTo(course, unit_id) ==
    {<<i, "pre">> : i \in {j \in DOMAIN course.units :
                              course.units[j].pre_assessment = unit_id}}
    \cup
    {<<i, "post">> : i \in {j \in DOMAIN course.units :
                               course.units[j].post_assessment = unit_id}}

\* Only plain units own lessons and name assessments, and no assessment is
\* named twice (not by two units, not as pre and post of one unit).
ReferencesUnique(course) ==
    /\ \A i \in DOMAIN course.units :
           course.units[i].type # "U" =>
               /\ course.units[i].pre_assessment = 0
               /\ course.units[i].post_assessment = 0
    /\ \A j \in DOMAIN course.lessons :
           \E i \in DOMAIN course.units :
               /\ course.units[i].unit_id = course.lessons[j].unit_id
               /\ course.units[i].type = "U"
    /\ \A i \in DOMAIN course.units :
           Cardinality(ReferencesTo(course, course.units[i].unit_id)) <= 1

Occurrences(elements, type, id) ==
    {k \in DOMAIN elements : elements[k].type = type /\ elements[k].id = id}

\* Every unit and every lesson of the course is in the list exactly once.
ExactlyOnce(course, elements) ==
    /\ \A i \in DOMAIN course.units :
           Cardinality(Occurrences(elements, "unit", course.units[i].unit_id)) = 1
    /\ \A j \in DOMAIN course.lessons :
           Cardinality(Occurrences(elements, "lesson",
                                   course.lessons[j].lesson_id)) = 1
    /\ Len(elements) = Len(course.units) + Len(course.lessons)

\* C10 as stated: whenever every pre-/post-assessment reference names an
\* assessment of the course, what a read returns holds every unit and every
\* lesson exactly once, so as many elements as there are units and lessons.
C10_AsStated ==
    \A r \in Reads :
        ReferencesResolve(req[r].loaded_course)
        => ExactlyOnce(req[r].loaded_course, ElementsOf(r))

\* C10, amended: the same, when moreover only plain units own lessons and
\* name assessments and no assessment is named by more than one reference.
C10_ExactlyOnce ==
    \A r \in Reads :
        ( /\ ReferencesResolve(req[r].loaded_course)
          /\ ReferencesUnique(req[r].loaded_course) )
        => ExactlyOnce(req[r].loaded_course, ElementsOf(r))

\* A read of a course with a unit that has lessons and two different
\* assessments, none of them named twice.
C10_Witness ==
    \E r \in Reads :
        LET course == req[r].loaded_course
        IN  /\ ReferencesResolve(course)
            /\ ReferencesUnique(course)
            /\ Len(course.lessons) >= 2
            /\ \E i \in DOMAIN course.units :
                   /\ course.units[i].pre_assessment # 0
                   /\ course.units[i].post_assessment # 0
            /\ Len(ElementsOf(r)) = Len(course.units) + Len(course.lessons)

\* The writes, and what each one carries and has done.
Writes == {r \in DOMAIN req : req[r].method = "put"}

Authorized(r) == req[r].xsrf_ok /\ req[r].allowed

Finished(r) == req[r].pc \in {"done", "raised"}

ItemsOf(r) ==
    IF "element_settings" \in DOMAIN req[r].payload
    THEN req[r].payload.element_settings
    ELSE <<>>

ValidType(item) == item.type \in {"unit", "lesson"}

\* The calls among names that request r has made, in order.
CallsOf(r, names) ==
    LET mine == SelectSeq(calls, LAMBDA c : c.r = r /\ c.call \in names)
    IN  [i \in DOMAIN mine |-> mine[i].call]

\* The entry names a unit or a lesson of the course.
Resolves(course, item) ==
    \/ /\ item.type = "unit"
       /\ \E i \in DOMAIN course.units : course.units[i].unit_id = item.id
    \/ /\ item.type = "lesson"
       /\ \E j \in DOMAIN course.lessons : course.lessons[j].lesson_id = item.id

\* C2 as stated: an authorized write with an entry of unknown type ends in
\* the error with neither save_settings nor save performed and the stored
\* record as it was before the request.
C2_AsStated ==
    \A r \in Writes :
        (Authorized(r) /\ Finished(r) /\ \E k \in DOMAIN ItemsOf(r) :
                                            ~ValidType(ItemsOf(r)[k]))
        => /\ req[r].pc = "raised"
           /\ CallsOf(r, {"save_settings", "save"}) = <<>>
           /\ persisted.course = req[r].loaded_course
           /\ persisted.settings = req[r].loaded_settings

\* C2, amended: an authorized write with an entry of unknown type ends in
\* the error before the tree save and before any response: save has not been
\* performed and the stored units and lessons are those before the request;
\* save_settings has already been performed, once, with the course-level
\* fields of the payload.
C2_AbortsBeforeTreeSave ==
    \A r \in Writes :
        (Authorized(r) /\ Finished(r) /\ \E k \in DOMAIN ItemsOf(r) :
                                            ~ValidType(ItemsOf(r)[k]))
        => /\ req[r].pc = "raised"
           /\ req[r].status = 0
           /\ CallsOf(r, {"save", "send_json_response"}) = <<>>
           /\ persisted.course = req[r].loaded_course
           /\ CallsOf(r, {"save_settings"}) = <<"save_settings">>
           /\ persisted.settings = req[r].settings

\* A write that raised after an earlier entry had changed its course object
\* and after its settings save had changed the stored whitelist.
C2_Witness ==
    \E r \in Writes :
        /\ req[r].pc = "raised"
        /\ req[r].course # req[r].loaded_course
        /\ persisted.course = req[r].loaded_course
        /\ persisted.settings # req[r].loaded_settings
        /\ persisted.settings.reg_form.whitelist = "new@example.com"

\* C3: an authorized write whose entries all have type unit or lesson ends
\* with the tree saved and 200 'Saved.', whether or not the ids are found; an
\* entry whose id is not found changes nothing: the saved tree is the one the
\* found entries alone produce, and a unit or lesson no found entry names is
\* as it was loaded.
C3_MissingSkipped ==
    \A r \in Writes :
        (Authorized(r) /\ Finished(r) /\ \A k \in DOMAIN ItemsOf(r) :
                                            ValidType(ItemsOf(r)[k]))
        => LET loaded == req[r].loaded_course
               found == SelectSeq(ItemsOf(r),
                                  LAMBDA item : Resolves(loaded, item))
           IN  /\ req[r].pc = "done"
               /\ req[r].status = 200
               /\ req[r].message = "Saved."
               /\ CallsOf(r, {"save"}) = <<"save">>
               /\ persisted.course = req[r].course
               /\ req[r].course = apply_element_settings(loaded, found).course
               /\ \A i \in DOMAIN loaded.units :
                      (\A k \in DOMAIN found :
                           ~(found[k].type = "unit"
                             /\ found[k].id = loaded.units[i].unit_id))
                      => req[r].course.units[i] = loaded.units[i]
               /\ \A j \in DOMAIN loaded.lessons :
                      (\A k \in DOMAIN found :
                           ~(found[k].type = "lesson"
                             /\ found[k].id = loaded.lessons[j].lesson_id))
                      => req[r].course.lessons[j] = loaded.lessons[j]

\* A saved write whose first entry names a unit that does not exist and whose
\* second entry changed a lesson.
C3_Witness ==
    \E r \in Writes :
        /\ req[r].pc = "done"
        /\ req[r].status = 200
        /\ Len(ItemsOf(r)) = 2
        /\ ItemsOf(r)[1].type = "unit"
        /\ ~Resolves(req[r].loaded_course, ItemsOf(r)[1])
        /\ Resolves(req[r].loaded_course, ItemsOf(r)[2])
        /\ req[r].course.units = req[r].loaded_course.units
        /\ req[r].course.lessons # req[r].loaded_course.lessons
        /\ persisted.course = req[r].course

\* C4: a write whose token check or permission check fails, and a read
\* whose permission check fails, answers 401 in the step that begins it:
\* that step changes nothing stored, makes no call but the response, loads
\* no course and no settings and returns no payload.
C4_RejectedBeforeMutation ==
    [][\A r \in DOMAIN req :
          (req'[r].pc # "idle" /\ ~(req'[r].xsrf_ok /\ req'[r].allowed))
          => /\ req[r].pc = "idle"
             /\ req'[r].pc = "done"
             /\ req'[r].status = 401
             /\ persisted' = persisted
             /\ calls' = Append(calls, [r |-> r, call |-> "send_json_response"])
             /\ req'[r].course = NoCourse
             /\ req'[r].loaded_course = NoCourse
             /\ req'[r].settings = NoSettings
             /\ req'[r].entity = NoPayload]_vars

\* A write with a good token and no permission, carrying course-level fields
\* and entries, that was answered 401.
C4_Witness ==
    \E r \in Writes :
        /\ req[r].xsrf_ok
        /\ ~req[r].allowed
        /\ req[r].status = 401
        /\ "whitelist" \in DOMAIN req[r].payload
        /\ Len(ItemsOf(r)) >= 1
        /\ calls = <<[r |-> r, call |-> "send_json_response"]>>

\* C5: an authorized write whose element_settings is what traverse_course
\* returns for the course it loads ends saved, with every unit and every
\* lesson as it was loaded.
C5_RoundTrip ==
    \A r \in Writes :
        ( /\ Authorized(r)
          /\ Finished(r)
          /\ ItemsOf(r) = traverse_course(req[r].loaded_course) )
        => /\ req[r].pc = "done"
           /\ req[r].course = req[r].loaded_course
           /\ persisted.course = req[r].loaded_course

\* A saved round trip of a course with at least five elements whose stored
\* values differ from one element to the next.
C5_Witness ==
    \E r \in Writes :
        /\ req[r].pc = "done"
        /\ req[r].status = 200
        /\ Len(ItemsOf(r)) >= 5
        /\ \E k1, k2 \in DOMAIN ItemsOf(r) :
               /\ ItemsOf(r)[k1].availability # ItemsOf(r)[k2].availability
               /\ ItemsOf(r)[k1].shown_when_unavailable
                  # ItemsOf(r)[k2].shown_when_unavailable
        /\ persisted.course = req[r].loaded_course

\* The writes whose settings save has been performed.
SettingsSaved(r) ==
    /\ Authorized(r)
    /\ req[r].pc \in {"settings_saved", "availability_set", "done", "raised"}

StoredWhitelist == persisted.settings.reg_form.whitelist

\* The boolean a JSON value of the flag stands for.
TruthOf(value) == value \in {"True", "1"}

\* C6 as stated: after the settings save of an authorized write, a field
\* whose key is absent from the payload is stored as it was loaded, and a
\* field whose key is present is stored with the payload's value, whatever
\* it is: the whitelist verbatim, the flag as a boolean (false for null).
C6_AsStated ==
    \A r \in Writes :
        SettingsSaved(r)
        => /\ IF "whitelist" \in DOMAIN req[r].payload
              THEN StoredWhitelist = req[r].payload.whitelist
              ELSE StoredWhitelist = req[r].loaded_settings.reg_form.whitelist
           /\ IF "show_lessons_in_syllabus" \in DOMAIN req[r].payload
              THEN persisted.settings.course =
                       [show_lessons_in_syllabus |->
                           TruthOf(req[r].payload.show_lessons_in_syllabus)]
              ELSE persisted.settings.course = req[r].loaded_settings.course

\* C6, amended: a field whose key is absent, or present with the value null,
\* is stored as it was loaded; a field whose key is present with any other
\* value (the empty string, false) is overwritten: the whitelist verbatim,
\* the flag as a boolean.
C6_Presence ==
    \A r \in Writes :
        SettingsSaved(r)
        => /\ IF /\ "whitelist" \in DOMAIN req[r].payload
                 /\ req[r].payload.whitelist # None
              THEN StoredWhitelist = req[r].payload.whitelist
              ELSE StoredWhitelist = req[r].loaded_settings.reg_form.whitelist
           /\ IF /\ "show_lessons_in_syllabus" \in DOMAIN req[r].payload
                 /\ req[r].payload.show_lessons_in_syllabus # None
              THEN persisted.settings.course =
                       [show_lessons_in_syllabus |->
                           TruthOf(req[r].payload.show_lessons_in_syllabus)]
              ELSE persisted.settings.course = req[r].loaded_settings.course

\* A write that stored the empty whitelist over a non-empty one, and whose
\* null flag left the stored flag set.
C6_Witness ==
    \E r \in Writes :
        /\ SettingsSaved(r)
        /\ "whitelist" \in DOMAIN req[r].payload
        /\ req[r].payload.whitelist = ""
        /\ req[r].loaded_settings.reg_form.whitelist # ""
        /\ StoredWhitelist = ""
        /\ "show_lessons_in_syllabus" \in DOMAIN req[r].payload
        /\ req[r].payload.show_lessons_in_syllabus = None
        /\ persisted.settings.course.show_lessons_in_syllabus

\* C7: an authorized write makes no persistence call before its settings
\* save; from then until the loop over the entries ends it has made the
\* settings save alone and the stored tree is still the loaded one; and when
\* it has completed with 200 it has made exactly save_settings, then save,
\* then the response, the saved tree being the one that results from applying
\* every entry.
C7_SavesOnceInOrder ==
    \A r \in Writes :
        Authorized(r)
        => LET log == CallsOf(r, {"save_settings", "save", "send_json_response"})
           IN  /\ req[r].pc = "loaded" => log = <<>>
               /\ req[r].pc \in {"settings_saved", "availability_set", "raised"}
                  => /\ log = <<"save_settings">>
                     /\ persisted.course = req[r].loaded_course
               /\ req[r].pc = "done"
                  => /\ log = <<"save_settings", "save", "send_json_response">>
                     /\ req[r].status = 200
                     /\ persisted.settings = req[r].settings
                     /\ persisted.course =
                            apply_element_settings(req[r].loaded_course,
                                                   ItemsOf(r)).course

\* A completed write with an empty payload: nothing changed, both saves made.
C7_Witness ==
    \E r \in Writes :
        /\ Authorized(r)
        /\ req[r].pc = "done"
        /\ req[r].payload = NoPayload
        /\ persisted.settings = req[r].loaded_settings
        /\ persisted.course = req[r].loaded_course
        /\ CallsOf(r, {"save_settings", "save"}) = <<"save_settings", "save">>

Without(seq, i) == SubSeq(seq, 1, i - 1) \o SubSeq(seq, i + 1, Len(seq))

RECURSIVE PermutationsOf(_)
PermutationsOf(seq) ==
    IF seq = <<>> THEN {<<>>}
    ELSE UNION {{<<seq[i]>> \o rest : rest \in PermutationsOf(Without(seq, i))} :
                i \in DOMAIN seq}

\* No two entries that name the same unit or lesson of the course give
\* different values to the same field.
NoConflict(course, items) ==
    \A k1, k2 \in DOMAIN items :
        ( /\ items[k1].type = items[k2].type
          /\ items[k1].id = items[k2].id
          /\ Resolves(course, items[k1]) )
        => \A key \in {"availability", "shown_when_unavailable"} :
               (key \in DOMAIN items[k1] /\ key \in DOMAIN items[k2])
               => items[k1][key] = items[k2][key]

\* C8 as stated: the course an authorized write has saved from entries that
\* all have type unit or lesson is the course every reordering of the same
\* entries produces from the course it loaded.
C8_AsStated ==
    \A r \in Writes :
        (Authorized(r) /\ req[r].pc = "done" /\ \A k \in DOMAIN ItemsOf(r) :
                                                   ValidType(ItemsOf(r)[k]))
        => \A other \in PermutationsOf(ItemsOf(r)) :
               apply_element_settings(req[r].loaded_course, other).course
               = req[r].course

\* C8, amended: the same, when no two entries that name the same unit or
\* lesson of the course give different values to the same field (otherwise
\* the entry that comes last in the list wins).
C8_OrderIrrelevant ==
    \A r \in Writes :
        ( /\ Authorized(r)
          /\ req[r].pc = "done"
          /\ \A k \in DOMAIN ItemsOf(r) : ValidType(ItemsOf(r)[k])
          /\ NoConflict(req[r].loaded_course, ItemsOf(r)) )
        => \A other \in PermutationsOf(ItemsOf(r)) :
               apply_element_settings(req[r].loaded_course, other).course
               = req[r].course

\* A saved write of two different entries without conflict that both changed
\* the course.
C8_Witness ==
    \E r \in Writes :
        /\ Authorized(r)
        /\ req[r].pc = "done"
        /\ Len(ItemsOf(r)) = 2
        /\ ItemsOf(r)[1] # ItemsOf(r)[2]
        /\ \A k \in DOMAIN ItemsOf(r) : Resolves(req[r].loaded_course, ItemsOf(r)[k])
        /\ NoConflict(req[r].loaded_course, ItemsOf(r))
        /\ req[r].course.units # req[r].loaded_course.units
        /\ req[r].course.lessons # req[r].loaded_course.lessons

\* The request that made the last call of this name, 0 when none has.
LastCaller(name) ==
    LET made == {i \in DOMAIN calls : calls[i].call = name}
    IN  IF made = {} THEN 0
        ELSE calls[CHOOSE i \in made : \A j \in made : j <= i].r

\* C9: with the steps of two writes interleaved in any order, the stored
\* settings are those of the write whose save_settings came last (the
\* settings it loaded, merged with its payload) and the stored units and
\* lessons are those of the write whose save came last (the course it
\* loaded, with its entries applied): a unit or lesson that write's entries
\* do not name is stored as that write loaded it, whatever the other write
\* saved in between.
C9_LastWriterWins ==
    /\ LET s == LastCaller("save_settings")
       IN  s # 0 => persisted.settings =
                        merge_settings(req[s].loaded_settings, req[s].payload)
    /\ LET t == LastCaller("save")
       IN  t # 0 =>
           /\ persisted.course =
                  apply_element_settings(req[t].loaded_course, ItemsOf(t)).course
           /\ \A i \in DOMAIN persisted.course.units :
                  (\A k \in DOMAIN ItemsOf(t) :
                       ~(ItemsOf(t)[k].type = "unit"
                         /\ ItemsOf(t)[k].id = persisted.course.units[i].unit_id))
                  => persisted.course.units[i] = req[t].loaded_course.units[i]
           /\ \A j \in DOMAIN persisted.course.lessons :
                  (\A k \in DOMAIN ItemsOf(t) :
                       ~(ItemsOf(t)[k].type = "lesson"
                         /\ ItemsOf(t)[k].id = persisted.course.lessons[j].lesson_id))
                  => persisted.course.lessons[j] = req[t].loaded_course.lessons[j]

\* Both writes completed with 200, the last settings save and the last tree
\* save were made by different writes, and a unit the other write had changed
\* and saved is stored as the last tree writer loaded it.
C9_Witness ==
    \E t \in Writes, o \in Writes :
        /\ t # o
        /\ req[t].pc = "done" /\ req[t].status = 200
        /\ req[o].pc = "done" /\ req[o].status = 200
        /\ LastCaller("save") = t
        /\ LastCaller("save_settings") = o
        /\ \E i \in DOMAIN persisted.course.units :
               /\ req[o].course.units[i] # req[o].loaded_course.units[i]
               /\ persisted.course.units[i] = req[t].loaded_course.units[i]
               /\ persisted.course.units[i] # req[o].course.units[i]

====
